---- MODULE Spec2Model ----
(***************************************************************************)
(* The DTLS connection state of dtls/src/state.rs: the State struct, its   *)
(* snapshot codec (serialize / deserialize), the binary marshalling, the   *)
(* cipher-suite initialisation and the keying-material exporter.           *)
(*                                                                         *)
(* A State is a record.  An Option is a sequence of length 0 (None) or 1   *)
(* (Some).  A Result is [ok, err, val]: val is the byte sequence an        *)
(* operation returns (<<>> when it returns nothing).  Fixed-width integers *)
(* of the binary encoding are single tokens; the length prefixes and the   *)
(* field order of the encoding are kept.                                   *)
(***************************************************************************)
EXTENDS Integers, Sequences, FiniteSets, TLC

VARIABLES st, op, arg, res, inits, hadKeys, peer, peerRes, calls

vars == <<st, op, arg, res, inits, hadKeys, peer, peerRes, calls>>

----------------------------------------------------------------------------
(* Bounds of the model. *)

\* Largest epoch a snapshot carries.
MaxEpoch == 1

\* Largest length asked of export_keying_material.
MaxLength == 1

----------------------------------------------------------------------------
(* Errors. *)

ERR_CIPHER_SUITE_UNSET == "ERR_CIPHER_SUITE_UNSET"
ERR_HANDSHAKE_IN_PROGRESS == "ERR_HANDSHAKE_IN_PROGRESS"
ERR_CONTEXT_UNSUPPORTED == "ERR_CONTEXT_UNSUPPORTED"
ERR_RESERVED_EXPORT_KEYING_MATERIAL == "ERR_RESERVED_EXPORT_KEYING_MATERIAL"
ERR_UNSUPPORTED_CIPHER_SUITE_ID == "ERR_UNSUPPORTED_CIPHER_SUITE_ID"
ERR_DECODE == "ERR_DECODE"
ERR_CIPHER_SUITE_INIT == "ERR_CIPHER_SUITE_INIT"
PANIC_INDEX_OUT_OF_BOUNDS == "PANIC_INDEX_OUT_OF_BOUNDS"

Ok(v) == [ok |-> TRUE, err |-> "", val |-> v]
Err(e) == [ok |-> FALSE, err |-> e, val |-> <<>>]

----------------------------------------------------------------------------
(* Collaborators: handshake randoms, SRTP profiles, cipher suites, PRF. *)

\* HandshakeRandom: a time stamp and random bytes.
HandshakeRandomDefault == [gmt_unix_time |-> 0, random_bytes |-> 0]
HandshakeRandoms ==
    { [gmt_unix_time |-> 1, random_bytes |-> 2],
      [gmt_unix_time |-> 2, random_bytes |-> 1] }

\* HandshakeRandom::marshal: the time stamp, then the random bytes.
RandomMarshal(r) == <<r.gmt_unix_time, r.random_bytes>>

\* HandshakeRandom::unmarshal of a fixed-size buffer.
RandomUnmarshal(b) == [gmt_unix_time |-> b[1], random_bytes |-> b[2]]

\* SRTPProtectionProfile: one supported profile and Unsupported.
SRTP_AES128_CM_HMAC_SHA1_80 == "SRTP_AES128_CM_HMAC_SHA1_80"
SRTP_Unsupported == "Unsupported"

\* `profile as u16`: the enum's discriminant.
SrtpAsU16(p) == IF p = SRTP_AES128_CM_HMAC_SHA1_80 THEN 1 ELSE 2

\* From<u16> for SRTPProtectionProfile.
SrtpFromU16(v) == IF v = 1 THEN SRTP_AES128_CM_HMAC_SHA1_80 ELSE SRTP_Unsupported

\* The cipher-suite registry: the ids cipher_suite_for_id can construct.
RegisteredCipherSuiteIds == {49195, 49205}
UnregisteredCipherSuiteIds == {4660}

\* A freshly constructed cipher suite: not initialized, no keys derived.
NewCipherSuite(id) == [id |-> id, initialized |-> FALSE, keys |-> <<>>]

\* cipher_suite_for_id: registry lookup.
cipher_suite_for_id(id) ==
    IF id \in RegisteredCipherSuiteIds
    THEN [ok |-> TRUE, err |-> "", cs |-> <<NewCipherSuite(id)>>]
    ELSE [ok |-> FALSE, err |-> ERR_UNSUPPORTED_CIPHER_SUITE_ID, cs |-> <<>>]

\* CipherSuite::init: derives the keys from its arguments, or fails and
\* leaves the suite as it was.
CipherSuiteInit(cs, a, succeeds) ==
    IF succeeds
    THEN [cs |-> [cs EXCEPT !.initialized = TRUE, !.keys = <<a>>], res |-> Ok(<<>>)]
    ELSE [cs |-> cs, res |-> Err(ERR_CIPHER_SUITE_INIT)]

\* CipherSuite::hash_func: the hash of the suite.
HashFunc(cs) == cs.id % 7

\* A position-sensitive digest of a byte sequence.
RECURSIVE Digest(_)
Digest(s) ==
    IF s = <<>> THEN 0 ELSE (31 * Digest(SubSeq(s, 1, Len(s) - 1)) + s[Len(s)]) % 251

\* prf_p_hash: `length` bytes, each determined by secret, seed, hash and
\* its position; sensitive to the order of the seed's bytes.
prf_p_hash(secret, seed, length, h) ==
    Ok([i \in 1..length |-> (Digest(secret \o <<255>> \o seed) + 31 * h + 17 * i) % 256])

\* INVALID_KEYING_LABELS.
INVALID_KEYING_LABELS ==
    {"client finished", "server finished", "master secret", "key expansion"}

----------------------------------------------------------------------------
(* State and SerializedState. *)

\* NamedCurve::Unsupported, the curve of a State that has none.
NAMED_CURVE_Unsupported == "Unsupported"

\* The State built at the start of clone: every field at its default.
DefaultState ==
    [ local_epoch |-> 0,
      remote_epoch |-> 0,
      local_sequence_number |-> <<>>,
      local_random |-> HandshakeRandomDefault,
      remote_random |-> HandshakeRandomDefault,
      master_secret |-> <<>>,
      cipher_suite |-> <<>>,
      srtp_protection_profile |-> SRTP_Unsupported,
      peer_certificates |-> <<>>,
      is_client |-> FALSE,
      pre_master_secret |-> <<>>,
      extended_master_secret |-> FALSE,
      named_curve |-> NAMED_CURVE_Unsupported,
      local_keypair |-> <<>>,
      cookie |-> <<>>,
      handshake_send_sequence |-> 0,
      handshake_recv_sequence |-> 0,
      server_name |-> "",
      remote_requested_certificate |-> FALSE,
      local_certificates_verify |-> <<>>,
      local_verify_data |-> <<>>,
      local_key_signature |-> <<>>,
      peer_certificates_verified |-> FALSE,
      replay_detector |-> <<>> ]


\* Variant: the sequence number is read at epoch 0, not at local_epoch.
serialize_FirstEpoch(s) ==
    IF s.cipher_suite = <<>>
    THEN [ok |-> FALSE, err |-> ERR_CIPHER_SUITE_UNSET, ser |-> <<>>]
    ELSE IF Len(s.local_sequence_number) <= s.local_epoch
    THEN [ok |-> FALSE, err |-> PANIC_INDEX_OUT_OF_BOUNDS, ser |-> <<>>]
    ELSE [ok |-> TRUE, err |-> "",
          ser |-> << [ local_epoch |-> s.local_epoch,
                       remote_epoch |-> s.remote_epoch,
                       local_random |-> RandomMarshal(s.local_random),
                       remote_random |-> RandomMarshal(s.remote_random),
                       cipher_suite_id |-> s.cipher_suite[1].id,
                       master_secret |-> s.master_secret,
                       sequence_number |-> s.local_sequence_number[1],
                       srtp_protection_profile |-> SrtpAsU16(s.srtp_protection_profile),
                       peer_certificates |-> s.peer_certificates,
                       is_client |-> s.is_client ] >>]

\* State::serialize: the snapshot of s, or an error.  The cipher suite is
\* looked at before the sequence number is read; the read of
\* local_sequence_number[local_epoch] panics when out of bounds.
serialize(s) ==
    IF s.cipher_suite = <<>>
    THEN [ok |-> FALSE, err |-> ERR_CIPHER_SUITE_UNSET, ser |-> <<>>]
    ELSE IF Len(s.local_sequence_number) <= s.local_epoch
    THEN [ok |-> FALSE, err |-> PANIC_INDEX_OUT_OF_BOUNDS, ser |-> <<>>]
    ELSE [ok |-> TRUE, err |-> "",
          ser |-> << [ local_epoch |-> s.local_epoch,
                       remote_epoch |-> s.remote_epoch,
                       local_random |-> RandomMarshal(s.local_random),
                       remote_random |-> RandomMarshal(s.remote_random),
                       cipher_suite_id |-> s.cipher_suite[1].id,
                       master_secret |-> s.master_secret,
                       sequence_number |-> s.local_sequence_number[s.local_epoch + 1],
                       srtp_protection_profile |-> SrtpAsU16(s.srtp_protection_profile),
                       peer_certificates |-> s.peer_certificates,
                       is_client |-> s.is_client ] >>]

\* Variant: the loop stops one slot short.
RECURSIVE GrowSequenceShort(_, _)
GrowSequenceShort(seq, epoch) ==
    IF Len(seq) < epoch THEN GrowSequenceShort(Append(seq, 0), epoch) ELSE seq

\* The loop of deserialize that pushes zeros until index `epoch` exists.
RECURSIVE GrowSequence(_, _)
GrowSequence(seq, epoch) ==
    IF Len(seq) <= epoch THEN GrowSequence(Append(seq, 0), epoch) ELSE seq

\* The fields deserialize has written when it reaches the registry lookup.
DeserializeHead(s, ser) ==
    [s EXCEPT !.local_epoch = ser.local_epoch,
              !.remote_epoch = ser.remote_epoch,
              !.local_sequence_number = GrowSequence(s.local_sequence_number, ser.local_epoch),
              !.local_random = RandomUnmarshal(ser.local_random),
              !.remote_random = RandomUnmarshal(ser.remote_random),
              !.is_client = ser.is_client,
              !.master_secret = ser.master_secret]

\* Variant: the sequence number is written at epoch 0, not at the
\* snapshot's epoch.
DeserializeTailFirstEpoch(s, ser, cs) ==
    [s EXCEPT !.cipher_suite = cs,
              !.local_sequence_number[1] = ser.sequence_number,
              !.srtp_protection_profile = SrtpFromU16(ser.srtp_protection_profile),
              !.peer_certificates = ser.peer_certificates]

\* Variant: a cipher suite of the same id that the State already holds is
\* kept instead of being replaced by the new one.
DeserializeTailKeepSuite(s, ser, cs) ==
    [s EXCEPT !.cipher_suite =
                  IF s.cipher_suite # <<>> /\ s.cipher_suite[1].id = cs[1].id
                  THEN s.cipher_suite ELSE cs,
              !.local_sequence_number[ser.local_epoch + 1] = ser.sequence_number,
              !.srtp_protection_profile = SrtpFromU16(ser.srtp_protection_profile),
              !.peer_certificates = ser.peer_certificates]

\* The fields deserialize writes once the lookup has given cipher suite cs.
DeserializeTail(s, ser, cs) ==
    [s EXCEPT !.cipher_suite = cs,
              !.local_sequence_number[ser.local_epoch + 1] = ser.sequence_number,
              !.srtp_protection_profile = SrtpFromU16(ser.srtp_protection_profile),
              !.peer_certificates = ser.peer_certificates]

\* Variant: a failed lookup leaves the State as it was.
deserialize_Transactional(s, ser) ==
    LET found == cipher_suite_for_id(ser.cipher_suite_id)
    IN  IF found.ok
        THEN [state |-> DeserializeTail(DeserializeHead(s, ser), ser, found.cs),
              res |-> Ok(<<>>)]
        ELSE [state |-> s, res |-> Err(found.err)]

\* State::deserialize: applies the snapshot field by field; the lookup of
\* the cipher suite can fail after the first fields are written.
deserialize(s, ser) ==
    LET head == DeserializeHead(s, ser)
        found == cipher_suite_for_id(ser.cipher_suite_id)
    IN  IF found.ok
        THEN [state |-> DeserializeTail(head, ser, found.cs), res |-> Ok(<<>>)]
        ELSE [state |-> head, res |-> Err(found.err)]

\* Variant: a server hands over its randoms in the order of a client.
InitArgsLocalFirst(s) ==
    [master_secret |-> s.master_secret,
     client_random |-> RandomMarshal(s.local_random),
     server_random |-> RandomMarshal(s.remote_random),
     is_client |-> s.is_client]

\* The arguments init_cipher_suite hands to CipherSuite::init.
InitArgs(s) ==
    IF s.is_client
    THEN [master_secret |-> s.master_secret,
          client_random |-> RandomMarshal(s.local_random),
          server_random |-> RandomMarshal(s.remote_random),
          is_client |-> TRUE]
    ELSE [master_secret |-> s.master_secret,
          client_random |-> RandomMarshal(s.remote_random),
          server_random |-> RandomMarshal(s.local_random),
          is_client |-> FALSE]

\* Variant: a missing cipher suite is not an error.
init_cipher_suite_UnsetIsOk(s, succeeds) ==
    IF s.cipher_suite # <<>>
    THEN IF s.cipher_suite[1].initialized
         THEN [state |-> s, res |-> Ok(<<>>), inits |-> <<>>]
         ELSE LET a == InitArgs(s)
                  r == CipherSuiteInit(s.cipher_suite[1], a, succeeds)
              IN  [state |-> [s EXCEPT !.cipher_suite = <<r.cs>>],
                   res |-> r.res, inits |-> <<a>>]
    ELSE [state |-> s, res |-> Ok(<<>>), inits |-> <<>>]

\* Variant: no look at is_initialized, init is invoked on every call.
init_cipher_suite_NoCheck(s, succeeds) ==
    IF s.cipher_suite # <<>>
    THEN LET a == InitArgs(s)
             r == CipherSuiteInit(s.cipher_suite[1], a, succeeds)
         IN  [state |-> [s EXCEPT !.cipher_suite = <<r.cs>>],
              res |-> r.res, inits |-> <<a>>]
    ELSE [state |-> s, res |-> Err(ERR_CIPHER_SUITE_UNSET), inits |-> <<>>]

\* Variant: the master secret is wiped once the keys are derived.
init_cipher_suite_WipesSecret(s, succeeds) ==
    IF s.cipher_suite # <<>>
    THEN IF s.cipher_suite[1].initialized
         THEN [state |-> s, res |-> Ok(<<>>), inits |-> <<>>]
         ELSE LET a == InitArgs(s)
                  r == CipherSuiteInit(s.cipher_suite[1], a, succeeds)
              IN  [state |-> [s EXCEPT !.cipher_suite = <<r.cs>>,
                                       !.master_secret =
                                           IF r.res.ok THEN <<>> ELSE s.master_secret],
                   res |-> r.res, inits |-> <<a>>]
    ELSE [state |-> s, res |-> Err(ERR_CIPHER_SUITE_UNSET), inits |-> <<>>]

\* Variant: a failed init drops the cipher suite.
init_cipher_suite_DropsSuite(s, succeeds) ==
    IF s.cipher_suite # <<>>
    THEN IF s.cipher_suite[1].initialized
         THEN [state |-> s, res |-> Ok(<<>>), inits |-> <<>>]
         ELSE LET a == InitArgs(s)
                  r == CipherSuiteInit(s.cipher_suite[1], a, succeeds)
              IN  [state |-> [s EXCEPT !.cipher_suite =
                                           IF r.res.ok THEN <<r.cs>> ELSE <<>>],
                   res |-> r.res, inits |-> <<a>>]
    ELSE [state |-> s, res |-> Err(ERR_CIPHER_SUITE_UNSET), inits |-> <<>>]

\* State::init_cipher_suite: `succeeds` is the outcome of CipherSuite::init
\* should it be invoked; inits lists the invocations made.
init_cipher_suite(s, succeeds) ==
    IF s.cipher_suite # <<>>
    THEN IF s.cipher_suite[1].initialized
         THEN [state |-> s, res |-> Ok(<<>>), inits |-> <<>>]
         ELSE LET a == InitArgs(s)
                  r == CipherSuiteInit(s.cipher_suite[1], a, succeeds)
              IN  [state |-> [s EXCEPT !.cipher_suite = <<r.cs>>],
                   res |-> r.res, inits |-> <<a>>]
    ELSE [state |-> s, res |-> Err(ERR_CIPHER_SUITE_UNSET), inits |-> <<>>]

----------------------------------------------------------------------------
(* The binary form of a SerializedState (bincode, fixed-width integers):   *)
(* the fields in declaration order, a fixed-size array as its elements, a  *)
(* Vec as its length followed by its elements, a bool as 0 or 1.           *)

\* HANDSHAKE_RANDOM_LENGTH, scaled to the two tokens RandomMarshal writes.
HANDSHAKE_RANDOM_LENGTH == 2

EncodeVec(v) == <<Len(v)>> \o v

RECURSIVE EncodeVecs(_)
EncodeVecs(vs) ==
    IF vs = <<>> THEN <<>> ELSE EncodeVec(Head(vs)) \o EncodeVecs(Tail(vs))

\* bincode::serialize of a SerializedState.
Encode(ser) ==
    <<ser.local_epoch, ser.remote_epoch>>
        \o ser.local_random \o ser.remote_random
        \o <<ser.cipher_suite_id>>
        \o EncodeVec(ser.master_secret)
        \o <<ser.sequence_number, ser.srtp_protection_profile>>
        \o <<Len(ser.peer_certificates)>> \o EncodeVecs(ser.peer_certificates)
        \o <<IF ser.is_client THEN 1 ELSE 0>>

DecodeFail == [ok |-> FALSE, val |-> <<>>, next |-> 0]

\* n tokens of data from position pos on.
DecodeTake(data, pos, n) ==
    IF pos + n - 1 > Len(data)
    THEN DecodeFail
    ELSE [ok |-> TRUE, val |-> SubSeq(data, pos, pos + n - 1), next |-> pos + n]

\* A Vec<u8>: its length, then its bytes.
DecodeVec(data, pos) ==
    IF pos > Len(data) THEN DecodeFail ELSE DecodeTake(data, pos + 1, data[pos])

\* `count` Vec<u8> in a row.
RECURSIVE DecodeVecs(_, _, _)
DecodeVecs(data, pos, count) ==
    IF count = 0
    THEN [ok |-> TRUE, val |-> <<>>, next |-> pos]
    ELSE LET first == DecodeVec(data, pos)
         IN  IF ~first.ok
             THEN DecodeFail
             ELSE LET rest == DecodeVecs(data, first.next, count - 1)
                  IN  IF ~rest.ok
                      THEN DecodeFail
                      ELSE [ok |-> TRUE, val |-> <<first.val>> \o rest.val,
                            next |-> rest.next]

\* Where the fields of a SerializedState start in its binary form.
CipherSuiteIdAt == 2 + 2 * HANDSHAKE_RANDOM_LENGTH + 1
SequenceNumberAt(data) == CipherSuiteIdAt + 2 + data[CipherSuiteIdAt + 1]
CertificatesAt(data) == SequenceNumberAt(data) + 2

\* bincode::deserialize into a SerializedState: fails on input that ends
\* early or whose bool is neither 0 nor 1; bytes after the value are ignored.
Decode(data) ==
    LET bad == [ok |-> FALSE, err |-> ERR_DECODE, ser |-> <<>>]
    IN  IF Len(data) < CipherSuiteIdAt + 1 THEN bad
        ELSE IF Len(data) < CertificatesAt(data) THEN bad
        ELSE LET certs == DecodeVecs(data, CertificatesAt(data) + 1,
                                     data[CertificatesAt(data)])
             IN  IF ~certs.ok THEN bad
                 ELSE IF certs.next > Len(data) THEN bad
                 ELSE IF data[certs.next] \notin {0, 1} THEN bad
                 ELSE [ok |-> TRUE, err |-> "",
                       ser |-> << [ local_epoch |-> data[1],
                                    remote_epoch |-> data[2],
                                    local_random |->
                                        SubSeq(data, 3, 2 + HANDSHAKE_RANDOM_LENGTH),
                                    remote_random |->
                                        SubSeq(data, 3 + HANDSHAKE_RANDOM_LENGTH,
                                               CipherSuiteIdAt - 1),
                                    cipher_suite_id |-> data[CipherSuiteIdAt],
                                    master_secret |->
                                        SubSeq(data, CipherSuiteIdAt + 2,
                                               SequenceNumberAt(data) - 1),
                                    sequence_number |-> data[SequenceNumberAt(data)],
                                    srtp_protection_profile |->
                                        data[SequenceNumberAt(data) + 1],
                                    peer_certificates |-> certs.val,
                                    is_client |-> data[certs.next] = 1 ] >>]

\* State::marshal_binary.
marshal_binary(s) ==
    LET serialized == serialize(s)
    IN  IF serialized.ok THEN Ok(Encode(serialized.ser[1])) ELSE Err(serialized.err)

\* Variant: the cipher suite is dropped before the bytes are decoded.
unmarshal_binary_DropsSuiteFirst(s, data, succeeds) ==
    LET dec == Decode(data)
        cleared == [s EXCEPT !.cipher_suite = <<>>]
    IN  IF ~dec.ok
        THEN [state |-> cleared, res |-> Err(dec.err), inits |-> <<>>]
        ELSE LET d == deserialize(cleared, dec.ser[1])
             IN  IF ~d.res.ok
                 THEN [state |-> d.state, res |-> d.res, inits |-> <<>>]
                 ELSE init_cipher_suite(d.state, succeeds)

\* State::unmarshal_binary: decode, deserialize, then init_cipher_suite;
\* each step's error ends the call.
unmarshal_binary(s, data, succeeds) ==
    LET dec == Decode(data)
    IN  IF ~dec.ok
        THEN [state |-> s, res |-> Err(dec.err), inits |-> <<>>]
        ELSE LET d == deserialize(s, dec.ser[1])
             IN  IF ~d.res.ok
                 THEN [state |-> d.state, res |-> d.res, inits |-> <<>>]
                 ELSE init_cipher_suite(d.state, succeeds)

\* Variant: the seed is always local random, then remote random.
ExportSeedLocalFirst(s) ==
    RandomMarshal(s.local_random) \o RandomMarshal(s.remote_random)

\* The seed of the export: client random, then server random.
ExportSeed(s) ==
    IF s.is_client
    THEN RandomMarshal(s.local_random) \o RandomMarshal(s.remote_random)
    ELSE RandomMarshal(s.remote_random) \o RandomMarshal(s.local_random)

\* Variant: the label is checked before the context.
export_keying_material_LabelFirst(s, label, context, length) ==
    IF s.local_epoch = 0 THEN Err(ERR_HANDSHAKE_IN_PROGRESS)
    ELSE IF label \in INVALID_KEYING_LABELS THEN Err(ERR_RESERVED_EXPORT_KEYING_MATERIAL)
    ELSE IF context # <<>> THEN Err(ERR_CONTEXT_UNSUPPORTED)
    ELSE IF s.cipher_suite # <<>>
         THEN prf_p_hash(s.master_secret, ExportSeed(s), length, HashFunc(s.cipher_suite[1]))
         ELSE Err(ERR_CIPHER_SUITE_UNSET)

\* Variant: the label is made part of the seed, ahead of the randoms.
export_keying_material_LabelInSeed(s, label, context, length) ==
    IF s.local_epoch = 0 THEN Err(ERR_HANDSHAKE_IN_PROGRESS)
    ELSE IF context # <<>> THEN Err(ERR_CONTEXT_UNSUPPORTED)
    ELSE IF label \in INVALID_KEYING_LABELS THEN Err(ERR_RESERVED_EXPORT_KEYING_MATERIAL)
    ELSE IF s.cipher_suite # <<>>
         THEN prf_p_hash(s.master_secret,
                         <<IF label = "EXTRACTOR-dtls_srtp" THEN 1 ELSE 2>> \o ExportSeed(s),
                         length, HashFunc(s.cipher_suite[1]))
         ELSE Err(ERR_CIPHER_SUITE_UNSET)

\* Variant: the context is checked before the epoch.
export_keying_material_ContextFirst(s, label, context, length) ==
    IF context # <<>> THEN Err(ERR_CONTEXT_UNSUPPORTED)
    ELSE IF s.local_epoch = 0 THEN Err(ERR_HANDSHAKE_IN_PROGRESS)
    ELSE IF label \in INVALID_KEYING_LABELS THEN Err(ERR_RESERVED_EXPORT_KEYING_MATERIAL)
    ELSE IF s.cipher_suite # <<>>
         THEN prf_p_hash(s.master_secret, ExportSeed(s), length, HashFunc(s.cipher_suite[1]))
         ELSE Err(ERR_CIPHER_SUITE_UNSET)

\* State::export_keying_material.
export_keying_material(s, label, context, length) ==
    IF s.local_epoch = 0 THEN Err(ERR_HANDSHAKE_IN_PROGRESS)
    ELSE IF context # <<>> THEN Err(ERR_CONTEXT_UNSUPPORTED)
    ELSE IF label \in INVALID_KEYING_LABELS THEN Err(ERR_RESERVED_EXPORT_KEYING_MATERIAL)
    ELSE IF s.cipher_suite # <<>>
         THEN prf_p_hash(s.master_secret, ExportSeed(s), length, HashFunc(s.cipher_suite[1]))
         ELSE Err(ERR_CIPHER_SUITE_UNSET)

\* Variant: a failed deserialize step gives back the default State.
clone_DefaultOnError(s) ==
    LET serialized == serialize(s)
    IN  IF serialized.ok /\ deserialize(DefaultState, serialized.ser[1]).res.ok
        THEN deserialize(DefaultState, serialized.ser[1]).state
        ELSE DefaultState

\* Variant: the snapshot is deserialized into a copy of the source.
clone_IntoCopy(s) ==
    LET serialized == serialize(s)
    IN  IF serialized.ok THEN deserialize(s, serialized.ser[1]).state
        ELSE DefaultState

\* Clone for State: a default State into which the source's snapshot is
\* deserialized; an error of either step is dropped.
clone(s) ==
    LET serialized == serialize(s)
    IN  IF serialized.ok THEN deserialize(DefaultState, serialized.ser[1]).state
        ELSE DefaultState

----------------------------------------------------------------------------
(* Inputs. *)

\* Remote epoch, master secret, randoms, sequence number, SRTP profile and
\* peer certificates of a snapshot.
SnapshotPayloads ==
    { [remote_epoch |-> 0, master_secret |-> <<7>>,
       local_random |-> <<1, 2>>, remote_random |-> <<2, 1>>,
       sequence_number |-> 3, srtp_protection_profile |-> 1,
       peer_certificates |-> << <<4>>, <<>> >>],
      [remote_epoch |-> 1, master_secret |-> <<9, 9>>,
       local_random |-> <<2, 1>>, remote_random |-> <<1, 2>>,
       sequence_number |-> 0, srtp_protection_profile |-> 9,
       peer_certificates |-> <<>>] }

CipherSuiteIds == RegisteredCipherSuiteIds \cup UnregisteredCipherSuiteIds

\* The SerializedState values given to deserialize.
Snapshots ==
    { [ local_epoch |-> le,
        remote_epoch |-> pl.remote_epoch,
        local_random |-> pl.local_random,
        remote_random |-> pl.remote_random,
        cipher_suite_id |-> id,
        master_secret |-> pl.master_secret,
        sequence_number |-> pl.sequence_number,
        srtp_protection_profile |-> pl.srtp_protection_profile,
        peer_certificates |-> pl.peer_certificates,
        is_client |-> c ] :
      le \in 0..MaxEpoch, pl \in SnapshotPayloads, id \in CipherSuiteIds,
      c \in BOOLEAN }

\* A well-formed blob to derive the malformed ones from.
SampleBlob == Encode(CHOOSE s \in Snapshots : s.peer_certificates # <<>>)

\* Blobs bincode cannot decode: empty, cut short, with a bool that is
\* neither 0 nor 1.
MalformedBlobs ==
    { <<>>,
      SubSeq(SampleBlob, 1, Len(SampleBlob) - 1),
      SubSeq(SampleBlob, 1, Len(SampleBlob) - 1) \o <<2>> }

\* The byte sequences given to unmarshal_binary: the encodings of the
\* snapshots of the highest epoch, and the malformed blobs.
Blobs ==
    {Encode(s) : s \in {x \in Snapshots : x.local_epoch = MaxEpoch}}
        \cup MalformedBlobs

Labels == {"EXTRACTOR-dtls_srtp", "EXPERIMENTAL-label", "master secret"}
Contexts == {<<>>, <<1>>}
Lengths == 0..MaxLength

NoSer == <<>>
NoData == <<>>

\* The inputs of the last operation.
Args(ser, data, label, context, length) ==
    [ser |-> ser, data |-> data, label |-> label, context |-> context, length |-> length]

NoArgs == Args(NoSer, NoData, "", <<>>, 0)

----------------------------------------------------------------------------
(* The operations on one State.  op, arg, res and inits record the last    *)
(* operation, its inputs, its result and the invocations of the cipher     *)
(* suite's init it made; hadKeys records whether the cipher suite was      *)
(* present and initialized when the operation began.                       *)

Initialized(s) == s.cipher_suite # <<>> /\ s.cipher_suite[1].initialized

\* No init_cipher_suite call is in flight.
NoCalls ==
    [pc |-> <<"idle", "idle">>, invoked |-> 0, overlapped |-> FALSE, afterInit |-> FALSE]

Init ==
    /\ st = DefaultState
    /\ op = "new"
    /\ arg = NoArgs
    /\ res = Ok(<<>>)
    /\ inits = <<>>
    /\ hadKeys = FALSE
    /\ peer = DefaultState
    /\ peerRes = Ok(<<>>)
    /\ calls = NoCalls

DoSerialize ==
    LET r == serialize(st)
    IN  /\ op' = "serialize"
        /\ arg' = Args(r.ser, NoData, "", <<>>, 0)
        /\ res' = IF r.ok THEN Ok(<<>>) ELSE Err(r.err)
        /\ inits' = <<>>
        /\ hadKeys' = Initialized(st)
        /\ UNCHANGED <<st, peer, peerRes, calls>>

\* A call of deserialize with snapshot ser.
CallDeserialize(ser) ==
    LET r == deserialize(st, ser)
    IN  /\ st' = r.state
        /\ op' = "deserialize"
        /\ arg' = Args(<<ser>>, NoData, "", <<>>, 0)
        /\ res' = r.res
        /\ inits' = <<>>
        /\ hadKeys' = Initialized(st)
        /\ UNCHANGED <<peer, peerRes, calls>>

DoDeserialize == \E ser \in Snapshots : CallDeserialize(ser)

DoInitCipherSuite ==
    \E succeeds \in BOOLEAN :
        LET r == init_cipher_suite(st, succeeds)
        IN  /\ st' = r.state
            /\ op' = "init_cipher_suite"
            /\ arg' = NoArgs
            /\ res' = r.res
            /\ inits' = r.inits
            /\ hadKeys' = Initialized(st)
            /\ UNCHANGED <<peer, peerRes, calls>>

DoMarshalBinary ==
    /\ op' = "marshal_binary"
    /\ arg' = NoArgs
    /\ res' = marshal_binary(st)
    /\ inits' = <<>>
    /\ hadKeys' = Initialized(st)
    /\ UNCHANGED <<st, peer, peerRes, calls>>

\* A call of unmarshal_binary with the bytes data; succeeds tells whether
\* the cipher suite's init, if the call gets to it, succeeds.
CallUnmarshalBinary(data, succeeds) ==
    LET r == unmarshal_binary(st, data, succeeds)
    IN  /\ st' = r.state
        /\ op' = "unmarshal_binary"
        /\ arg' = Args(NoSer, data, "", <<>>, 0)
        /\ res' = r.res
        /\ inits' = r.inits
        /\ hadKeys' = Initialized(st)
        /\ UNCHANGED <<peer, peerRes, calls>>

\* The input is one of Blobs or the blob marshal_binary has just returned.
DoUnmarshalBinary ==
    \E data \in Blobs \cup (IF op = "marshal_binary" /\ res.ok THEN {res.val} ELSE {}),
       succeeds \in BOOLEAN :
        CallUnmarshalBinary(data, succeeds)

\* The program goes on with the duplicate.
DoClone ==
    /\ serialize(st).err # PANIC_INDEX_OUT_OF_BOUNDS
    /\ st' = clone(st)
    /\ op' = "clone"
    /\ arg' = NoArgs
    /\ res' = Ok(<<>>)
    /\ inits' = <<>>
    /\ hadKeys' = Initialized(st)
    /\ UNCHANGED <<peer, peerRes, calls>>

Next ==
    \/ DoSerialize
    \/ DoDeserialize
    \/ DoInitCipherSuite
    \/ DoMarshalBinary
    \/ DoUnmarshalBinary
    \/ DoClone

Spec == Init /\ [][Next]_vars

----------------------------------------------------------------------------
(* The exporter on the two ends of one connection: st is the client's      *)
(* State, peer the server's.  Both are restored from snapshots that hold   *)
(* the same epoch, master secret and cipher suite, and each other's        *)
(* randoms.                                                                *)

MasterSecrets == {<<7>>, <<9, 9>>}

\* The snapshot of one end.
EndSnapshot(epoch, secret, local, remote, id, client) ==
    [ local_epoch |-> epoch,
      remote_epoch |-> epoch,
      local_random |-> RandomMarshal(local),
      remote_random |-> RandomMarshal(remote),
      cipher_suite_id |-> id,
      master_secret |-> secret,
      sequence_number |-> 0,
      srtp_protection_profile |-> 1,
      peer_certificates |-> <<>>,
      is_client |-> client ]

RestoreEnds ==
    \E epoch \in 0..MaxEpoch, secret \in MasterSecrets, id \in CipherSuiteIds,
       rc \in HandshakeRandoms : \E rs \in HandshakeRandoms \ {rc} :
        LET c == deserialize(st, EndSnapshot(epoch, secret, rc, rs, id, TRUE))
            s == deserialize(peer, EndSnapshot(epoch, secret, rs, rc, id, FALSE))
        IN  /\ st' = c.state
            /\ peer' = s.state
            /\ op' = "deserialize"
            /\ arg' = Args(<<EndSnapshot(epoch, secret, rc, rs, id, TRUE)>>, NoData, "", <<>>, 0)
            /\ res' = c.res
            /\ peerRes' = s.res
            /\ inits' = <<>>
            /\ hadKeys' = Initialized(st)
            /\ UNCHANGED calls

DoExportKeyingMaterial ==
    \E label \in Labels, context \in Contexts, length \in Lengths :
        /\ op' = "export_keying_material"
        /\ arg' = Args(NoSer, NoData, label, context, length)
        /\ res' = export_keying_material(st, label, context, length)
        /\ peerRes' = export_keying_material(peer, label, context, length)
        /\ inits' = <<>>
        /\ hadKeys' = Initialized(st)
        /\ UNCHANGED <<st, peer, calls>>

NextExport ==
    \/ RestoreEnds
    \/ DoExportKeyingMaterial
    \/ DoSerialize
    \/ DoMarshalBinary
    \/ DoInitCipherSuite

SpecExport == Init /\ [][NextExport]_vars

----------------------------------------------------------------------------
(* Properties of the exporter (SpecExport). *)

\* C1: on a State whose local_epoch is 0, export_keying_material returns
\* HandshakeInProgress whatever the label, the context, the length and the
\* cipher suite: the epoch is checked before everything else.
C1_EpochCheckedFirst ==
    op = "export_keying_material" =>
        /\ st.local_epoch = 0 => res = Err(ERR_HANDSHAKE_IN_PROGRESS)
        /\ peer.local_epoch = 0 => peerRes = Err(ERR_HANDSHAKE_IN_PROGRESS)

\* An export at epoch 0 with a reserved label, a context and no cipher suite.
C1_Witness ==
    /\ op = "export_keying_material"
    /\ st.local_epoch = 0
    /\ arg.label \in INVALID_KEYING_LABELS
    /\ arg.context # <<>>
    /\ st.cipher_suite = <<>>
    /\ res = Err(ERR_HANDSHAKE_IN_PROGRESS)

\* st and peer are the client and the server of one connection: same master
\* secret, same cipher suite, same epoch past 0, each other's randoms.
TwoEnds ==
    /\ st.is_client /\ ~peer.is_client
    /\ st.master_secret = peer.master_secret
    /\ st.local_random = peer.remote_random
    /\ st.remote_random = peer.local_random
    /\ st.local_epoch > 0 /\ peer.local_epoch = st.local_epoch
    /\ st.cipher_suite # <<>> /\ peer.cipher_suite # <<>>
    /\ st.cipher_suite[1].id = peer.cipher_suite[1].id

\* C2: the client and the server of one connection get the same result from
\* export_keying_material for every label that is not reserved and every
\* length, with an empty context; the seed of both is the client's random
\* followed by the server's.
C2_BothEndsExportTheSame ==
    (/\ op = "export_keying_material"
     /\ TwoEnds
     /\ arg.context = <<>>
     /\ arg.label \notin INVALID_KEYING_LABELS) =>
        /\ res.ok
        /\ Len(res.val) = arg.length
        /\ res = peerRes
        /\ ExportSeed(st) = RandomMarshal(st.local_random) \o RandomMarshal(peer.local_random)
        /\ ExportSeed(peer) = RandomMarshal(st.local_random) \o RandomMarshal(peer.local_random)

\* Both ends have exported MaxLength bytes, and the randoms differ.
C2_Witness ==
    /\ op = "export_keying_material"
    /\ TwoEnds
    /\ st.local_random # st.remote_random
    /\ res.ok /\ peerRes.ok
    /\ Len(res.val) = MaxLength
    /\ res.val = peerRes.val

\* C6: without a cipher suite, serialize, marshal_binary and
\* init_cipher_suite fail with CipherSuiteUnset, and so does
\* export_keying_material once the epoch is past 0, the context empty and
\* the label not reserved; none of them changes the State or invokes init.
C6_NoCipherSuiteNoKeying ==
    [][st.cipher_suite = <<>> =>
        /\ op' \in {"serialize", "marshal_binary", "init_cipher_suite"} =>
            /\ res' = Err(ERR_CIPHER_SUITE_UNSET)
            /\ st' = st
            /\ inits' = <<>>
        /\ (/\ op' = "export_keying_material"
            /\ st.local_epoch > 0
            /\ arg'.context = <<>>
            /\ arg'.label \notin INVALID_KEYING_LABELS) =>
            /\ res' = Err(ERR_CIPHER_SUITE_UNSET)
            /\ st' = st
            /\ inits' = <<>>]_vars

\* An export past epoch 0 has failed for want of a cipher suite.
C6_Witness ==
    /\ op = "export_keying_material"
    /\ st.cipher_suite = <<>>
    /\ st.local_epoch > 0
    /\ arg.context = <<>>
    /\ arg.label \notin INVALID_KEYING_LABELS
    /\ res = Err(ERR_CIPHER_SUITE_UNSET)

----------------------------------------------------------------------------
(* Properties of cipher-suite initialisation and of the snapshot (Spec). *)

\* The State of the other end of st's connection: the other role, holding
\* st's randoms the other way round.
OtherEnd(s) ==
    [s EXCEPT !.is_client = ~s.is_client,
              !.local_random = s.remote_random,
              !.remote_random = s.local_random]

\* C3: every invocation of the cipher suite's init gets (master_secret,
\* local_random, remote_random, true) from a client and (master_secret,
\* remote_random, local_random, false) from a server, so the two randoms
\* are those the other end of the connection would hand over.
C3_InitArgumentsByRole ==
    /\ Len(inits) <= 1
    /\ \A i \in 1..Len(inits) :
        /\ inits[i].master_secret = st.master_secret
        /\ inits[i].is_client = st.is_client
        /\ st.is_client =>
            /\ inits[i].client_random = RandomMarshal(st.local_random)
            /\ inits[i].server_random = RandomMarshal(st.remote_random)
        /\ ~st.is_client =>
            /\ inits[i].client_random = RandomMarshal(st.remote_random)
            /\ inits[i].server_random = RandomMarshal(st.local_random)
        /\ inits[i].client_random = InitArgs(OtherEnd(st)).client_random
        /\ inits[i].server_random = InitArgs(OtherEnd(st)).server_random

\* init_cipher_suite of a server has invoked init, with randoms that differ.
C3_Witness ==
    /\ op = "init_cipher_suite"
    /\ Len(inits) = 1
    /\ ~st.is_client
    /\ st.local_random # st.remote_random
    /\ inits[1].client_random = RandomMarshal(st.remote_random)
    /\ inits[1].is_client = FALSE

\* C4: init_cipher_suite on a State whose cipher suite is present and
\* initialized returns success, invokes no init and changes nothing of the
\* State, the derived keys included, whatever the master secret and the
\* randoms have become since the keys were derived.
C4_InitIsIdempotent ==
    [][(/\ op' = "init_cipher_suite"
        /\ st.cipher_suite # <<>>
        /\ st.cipher_suite[1].initialized)
       => (/\ res' = Ok(<<>>)
           /\ inits' = <<>>
           /\ st' = st)]_vars

\* A second init_cipher_suite has succeeded without an init, on a State
\* whose master secret is no longer the one the keys were derived from.
C4_Witness ==
    /\ op = "init_cipher_suite"
    /\ hadKeys
    /\ res.ok
    /\ inits = <<>>
    /\ st.cipher_suite # <<>>
    /\ st.cipher_suite[1].initialized
    /\ st.cipher_suite[1].keys[1].master_secret # st.master_secret


\* The fields a snapshot carries are the same in a and b.
SameSnapshotFields(a, b) ==
    /\ a.local_epoch = b.local_epoch
    /\ a.remote_epoch = b.remote_epoch
    /\ Len(a.local_sequence_number) > a.local_epoch
    /\ Len(b.local_sequence_number) > b.local_epoch
    /\ a.local_sequence_number[a.local_epoch + 1] = b.local_sequence_number[b.local_epoch + 1]
    /\ a.local_random = b.local_random
    /\ a.remote_random = b.remote_random
    /\ a.master_secret = b.master_secret
    /\ a.cipher_suite # <<>> /\ b.cipher_suite # <<>>
    /\ a.cipher_suite[1].id = b.cipher_suite[1].id
    /\ a.srtp_protection_profile = b.srtp_protection_profile
    /\ a.peer_certificates = b.peer_certificates
    /\ a.is_client = b.is_client

\* C5: on a State whose cipher suite is present and initialized, serialize
\* and marshal_binary succeed; the duplicate made by deserializing the
\* snapshot into a default State, and the State after unmarshal_binary of
\* the blob marshal_binary returned, have the original's epochs, sequence
\* number at the local epoch, randoms, master secret, cipher-suite id, SRTP
\* profile, peer certificates and role.
C5_SnapshotRoundTrip ==
    [][Initialized(st) =>
        /\ op' \in {"serialize", "marshal_binary"} => res'.ok
        /\ op' = "clone" => SameSnapshotFields(st, st')
        /\ (op' = "unmarshal_binary" /\ op = "marshal_binary" /\ arg'.data = res.val) =>
            /\ res'.err \in {"", ERR_CIPHER_SUITE_INIT}
            /\ SameSnapshotFields(st, st')]_vars

\* unmarshal_binary has restored the blob of a State with an initialized
\* cipher suite, a sequence number and peer certificates; the blob is not
\* one of Blobs, it is the one marshal_binary returned.
C5_Witness ==
    /\ op = "unmarshal_binary"
    /\ hadKeys
    /\ res.ok
    /\ arg.data \notin Blobs
    /\ st.local_sequence_number[st.local_epoch + 1] # 0
    /\ st.peer_certificates # <<>>
    /\ Decode(arg.data).ser[1].master_secret = st.master_secret


\* The snapshot an operation applies to the State: the argument of
\* deserialize, the decoded blob of unmarshal_binary (<<>> if there is none).
AppliedSnapshot(o, a) ==
    IF o = "deserialize" THEN a.ser
    ELSE IF o = "unmarshal_binary" THEN Decode(a.data).ser
    ELSE <<>>

Max(a, b) == IF a >= b THEN a ELSE b

\* C7: deserializing a snapshot whose cipher-suite id is not registered
\* fails with UnsupportedCipherSuiteId after the epochs, the randoms, the
\* role and the master secret have been overwritten and the sequence grown;
\* the cipher suite, the sequence number at the snapshot's epoch (zero if
\* the slot is new), the SRTP profile and the peer certificates are as
\* before.
C7_FailedRestoreIsPartial ==
    [][(/\ AppliedSnapshot(op', arg') # <<>>
        /\ AppliedSnapshot(op', arg')[1].cipher_suite_id \notin RegisteredCipherSuiteIds)
       => LET ser == AppliedSnapshot(op', arg')[1]
              old == st.local_sequence_number
          IN  /\ res' = Err(ERR_UNSUPPORTED_CIPHER_SUITE_ID)
              /\ inits' = <<>>
              /\ st'.local_epoch = ser.local_epoch
              /\ st'.remote_epoch = ser.remote_epoch
              /\ RandomMarshal(st'.local_random) = ser.local_random
              /\ RandomMarshal(st'.remote_random) = ser.remote_random
              /\ st'.is_client = ser.is_client
              /\ st'.master_secret = ser.master_secret
              /\ Len(st'.local_sequence_number) = Max(Len(old), ser.local_epoch + 1)
              /\ st'.local_sequence_number[ser.local_epoch + 1] =
                     IF ser.local_epoch < Len(old) THEN old[ser.local_epoch + 1] ELSE 0
              /\ st'.cipher_suite = st.cipher_suite
              /\ st'.srtp_protection_profile = st.srtp_protection_profile
              /\ st'.peer_certificates = st.peer_certificates]_vars

\* A deserialize has failed on a State with derived keys: the master secret
\* is the snapshot's and no longer the one of the keys, the SRTP profile
\* and the sequence number are not the snapshot's.
C7_Witness ==
    /\ op = "deserialize"
    /\ res = Err(ERR_UNSUPPORTED_CIPHER_SUITE_ID)
    /\ hadKeys /\ Initialized(st)
    /\ st.master_secret = arg.ser[1].master_secret
    /\ st.cipher_suite[1].keys[1].master_secret # st.master_secret
    /\ st.srtp_protection_profile # SrtpFromU16(arg.ser[1].srtp_protection_profile)
    /\ st.local_sequence_number[st.local_epoch + 1] # arg.ser[1].sequence_number

\* C8: after a successful unmarshal_binary the cipher suite is present and
\* initialized, and its init was invoked once, with the master secret and
\* the randoms of the blob, also when the State held an initialized cipher
\* suite before.
C8_RestoredStateIsInitialized ==
    (op = "unmarshal_binary" /\ res.ok) =>
        LET ser == Decode(arg.data).ser[1]
        IN  /\ Initialized(st)
            /\ st.cipher_suite[1].id = ser.cipher_suite_id
            /\ Len(inits) = 1
            /\ st.cipher_suite[1].keys = inits
            /\ inits[1].master_secret = ser.master_secret
            /\ inits[1].is_client = ser.is_client
            /\ inits[1].client_random =
                   IF ser.is_client THEN ser.local_random ELSE ser.remote_random
            /\ inits[1].server_random =
                   IF ser.is_client THEN ser.remote_random ELSE ser.local_random

\* unmarshal_binary has succeeded on a State that held derived keys.
C8_Witness ==
    /\ op = "unmarshal_binary"
    /\ res.ok
    /\ hadKeys
    /\ Initialized(st)
    /\ inits # <<>>
    /\ inits[1].master_secret = st.master_secret


\* What every deserialize does to local_sequence_number, old being the
\* sequence before and ser the snapshot: it has length max(L, e + 1), new
\* slots are zero, and every slot but the one of the snapshot's epoch that
\* was there keeps its value.
SequenceGrown(old, new, ser) ==
    /\ Len(new) = Max(Len(old), ser.local_epoch + 1)
    /\ \A i \in 1..Len(new) :
        /\ (i > Len(old) /\ i # ser.local_epoch + 1) => new[i] = 0
        /\ (i <= Len(old) /\ i # ser.local_epoch + 1) => new[i] = old[i]

\* C9 as stated: every deserialize of a snapshot with local epoch e leaves
\* a sequence of length max(L, e + 1), new slots zero, other slots kept,
\* and index e holding the snapshot's sequence number.
C9_Original ==
    [][AppliedSnapshot(op', arg') # <<>> =>
        LET ser == AppliedSnapshot(op', arg')[1]
        IN  /\ SequenceGrown(st.local_sequence_number, st'.local_sequence_number, ser)
            /\ st'.local_sequence_number[ser.local_epoch + 1] = ser.sequence_number]_vars

\* C9 (amended): every deserialize of a snapshot with local epoch e leaves
\* a sequence of length max(L, e + 1), new slots zero, other slots kept;
\* index e holds the snapshot's sequence number if the snapshot's
\* cipher-suite id is registered, and otherwise its previous value (zero if
\* the slot is new).
C9_SequenceGrowth ==
    [][AppliedSnapshot(op', arg') # <<>> =>
        LET ser == AppliedSnapshot(op', arg')[1]
            old == st.local_sequence_number
        IN  /\ SequenceGrown(old, st'.local_sequence_number, ser)
            /\ st'.local_sequence_number[ser.local_epoch + 1] =
                   IF ser.cipher_suite_id \in RegisteredCipherSuiteIds
                   THEN ser.sequence_number
                   ELSE IF ser.local_epoch < Len(old) THEN old[ser.local_epoch + 1] ELSE 0]_vars

\* A snapshot of the highest epoch has been deserialized: the sequence has
\* MaxEpoch + 1 slots, all zero but the last.
C9_Witness ==
    /\ op = "deserialize"
    /\ res.ok
    /\ arg.ser[1].local_epoch = MaxEpoch
    /\ Len(st.local_sequence_number) = MaxEpoch + 1
    /\ \A i \in 1..MaxEpoch : st.local_sequence_number[i] = 0
    /\ st.local_sequence_number[MaxEpoch + 1] = arg.ser[1].sequence_number
    /\ st.local_sequence_number[MaxEpoch + 1] # 0

\* C10 as stated: in every reachable State the length of
\* local_sequence_number is at least local_epoch + 1.
C10_Original ==
    Len(st.local_sequence_number) >= st.local_epoch + 1

\* C10 (amended): in every reachable State but the default one (a new
\* State, or the duplicate of a clone that failed), the length of
\* local_sequence_number is at least local_epoch + 1; it is so whenever a
\* cipher suite is present, and the read of local_sequence_number at
\* local_epoch by serialize is never out of bounds.
C10_SequenceCoversEpoch ==
    /\ st # DefaultState => Len(st.local_sequence_number) >= st.local_epoch + 1
    /\ st.cipher_suite # <<>> => Len(st.local_sequence_number) >= st.local_epoch + 1
    /\ res.err # PANIC_INDEX_OUT_OF_BOUNDS
    /\ serialize(st).err # PANIC_INDEX_OUT_OF_BOUNDS

\* serialize has read the sequence number of the highest epoch, on a State
\* whose sequence has exactly MaxEpoch + 1 slots.
C10_Witness ==
    /\ op = "serialize"
    /\ res.ok
    /\ st.local_epoch = MaxEpoch
    /\ Len(st.local_sequence_number) = st.local_epoch + 1
    /\ arg.ser[1].sequence_number = st.local_sequence_number[MaxEpoch + 1]

----------------------------------------------------------------------------
(* Properties of the epochs and of the restore (Spec). *)

\* C11: over any sequence of init_cipher_suite, marshal_binary,
\* unmarshal_binary, deserialize and export_keying_material on one State, no
\* operation leaves local_epoch or remote_epoch lower than it was before the
\* operation.
C11_EpochsNeverDecrease ==
    [][(op' \in {"init_cipher_suite", "marshal_binary", "unmarshal_binary",
                 "deserialize", "export_keying_material"})
           => /\ st'.local_epoch >= st.local_epoch
              /\ st'.remote_epoch >= st.remote_epoch]_vars

----------------------------------------------------------------------------
(* Further properties of the exporter (SpecExport). *)

\* C12: with local_epoch > 0, export_keying_material checks the context
\* before the label: a non-empty context gives ContextUnsupported even with
\* a reserved label, and an empty context with a reserved label gives
\* ReservedExportLabel, whether or not a cipher suite is present.
C12_ContextCheckedBeforeLabel ==
    (op = "export_keying_material" /\ st.local_epoch > 0)
        => /\ arg.context # <<>> => res = Err(ERR_CONTEXT_UNSUPPORTED)
           /\ (arg.context = <<>> /\ arg.label \in INVALID_KEYING_LABELS)
                  => res = Err(ERR_RESERVED_EXPORT_KEYING_MATERIAL)

\* A reserved label with a non-empty context, on a State past epoch 0 that
\* has no cipher suite, was answered with ContextUnsupported.
C12_Witness ==
    /\ op = "export_keying_material"
    /\ st.local_epoch > 0
    /\ st.cipher_suite = <<>>
    /\ arg.context # <<>>
    /\ arg.label \in INVALID_KEYING_LABELS
    /\ res = Err(ERR_CONTEXT_UNSUPPORTED)

----------------------------------------------------------------------------
(* The life of one State (SpecLife): the handshake, which lives outside    *)
(* state.rs, fills the State and selects its cipher suite; the operations  *)
(* of state.rs, the exporter included, act on the same State.              *)

\* The handshake has run on the State: the fields no snapshot carries hold
\* what it negotiated and cached, the record layer tracks the local epoch,
\* and the cipher suite is the one negotiated, of an id the registry can
\* construct or of one it cannot.
HandshakeDone(s, id) ==
    [s EXCEPT !.cipher_suite = <<NewCipherSuite(id)>>,
              !.local_sequence_number = GrowSequence(s.local_sequence_number, s.local_epoch),
              !.pre_master_secret = <<5>>,
              !.extended_master_secret = TRUE,
              !.named_curve = "X25519",
              !.local_keypair = <<6>>,
              !.cookie = <<8>>,
              !.handshake_send_sequence = 2,
              !.handshake_recv_sequence = 1,
              !.server_name = "example.org",
              !.remote_requested_certificate = TRUE,
              !.local_certificates_verify = <<10>>,
              !.local_verify_data = <<11>>,
              !.local_key_signature = <<12>>,
              !.peer_certificates_verified = TRUE,
              !.replay_detector = <<"detector">>]

DoHandshake ==
    \E id \in CipherSuiteIds :
        /\ st' = HandshakeDone(st, id)
        /\ op' = "handshake"
        /\ arg' = NoArgs
        /\ res' = Ok(<<>>)
        /\ inits' = <<>>
        /\ hadKeys' = Initialized(st)
        /\ UNCHANGED <<peer, peerRes, calls>>

\* The snapshots and blobs one State is restored from.
LifeSnapshots == {s \in Snapshots : s.is_client}
LifeBlobs ==
    {Encode(s) : s \in {x \in LifeSnapshots : x.local_epoch = MaxEpoch}} \cup {<<>>}

LifeDeserialize == \E ser \in LifeSnapshots : CallDeserialize(ser)

LifeUnmarshalBinary ==
    \E data \in LifeBlobs, succeeds \in BOOLEAN : CallUnmarshalBinary(data, succeeds)

\* An export of MaxLength bytes from the one State.
LifeExportKeyingMaterial ==
    \E label \in Labels, context \in Contexts :
        /\ op' = "export_keying_material"
        /\ arg' = Args(NoSer, NoData, label, context, MaxLength)
        /\ res' = export_keying_material(st, label, context, MaxLength)
        /\ inits' = <<>>
        /\ hadKeys' = Initialized(st)
        /\ UNCHANGED <<st, peer, peerRes, calls>>

NextLife ==
    \/ DoHandshake
    \/ LifeDeserialize
    \/ LifeUnmarshalBinary
    \/ LifeExportKeyingMaterial
    \/ DoInitCipherSuite
    \/ DoSerialize
    \/ DoMarshalBinary
    \/ DoClone

SpecLife == Init /\ [][NextLife]_vars

----------------------------------------------------------------------------
(* Properties of the duplicate and of the master secret (SpecLife). *)

\* C13 as first stated: clone reports no error, and when its serialize step
\* fails (no cipher suite) or its deserialize step fails (cipher-suite id
\* not in the registry) the duplicate is the default State.
C13_Original ==
    [][(/\ op' = "clone"
        /\ \/ st.cipher_suite = <<>>
           \/ st.cipher_suite[1].id \notin RegisteredCipherSuiteIds)
           => (res'.ok /\ st' = DefaultState)]_vars

\* C13: clone reports no error.  When the source has no cipher suite the
\* duplicate is the default State.  When the source's cipher-suite id is not
\* in the registry the duplicate is the default State except for what
\* deserialize wrote ahead of the lookup: the epochs, the randoms, the role
\* and the master secret are the source's, and local_sequence_number holds
\* local_epoch + 1 zeros.
C13_FailedCloneResult ==
    [][(op' = "clone")
           => /\ res'.ok
              /\ st.cipher_suite = <<>> => st' = DefaultState
              /\ (/\ st.cipher_suite # <<>>
                  /\ st.cipher_suite[1].id \notin RegisteredCipherSuiteIds)
                     => st' = [DefaultState EXCEPT
                                  !.local_epoch = st.local_epoch,
                                  !.remote_epoch = st.remote_epoch,
                                  !.local_sequence_number =
                                      [i \in 1..(st.local_epoch + 1) |-> 0],
                                  !.local_random = st.local_random,
                                  !.remote_random = st.remote_random,
                                  !.is_client = st.is_client,
                                  !.master_secret = st.master_secret]]_vars

\* A duplicate whose deserialize step failed: no cipher suite, yet an epoch
\* and a master secret of the source.
C13_Witness ==
    /\ op = "clone"
    /\ st.cipher_suite = <<>>
    /\ st.local_epoch > 0
    /\ st.master_secret # <<>>
    /\ st.pre_master_secret = <<>>

\* C14: init_cipher_suite, marshal_binary, serialize and
\* export_keying_material leave master_secret as it was; the master secret
\* of a State changes only in a deserialize or an unmarshal_binary that
\* applies a snapshot, and then it is the snapshot's master secret.  (clone
\* borrows its source immutably and yields another State; the handshake is
\* not an operation of state.rs.)
C14_MasterSecretFrame ==
    [][/\ (op' \in {"init_cipher_suite", "marshal_binary", "serialize",
                    "export_keying_material"})
              => st'.master_secret = st.master_secret
       /\ (op' \notin {"clone", "handshake"} /\ st'.master_secret # st.master_secret)
              => /\ op' \in {"deserialize", "unmarshal_binary"}
                 /\ AppliedSnapshot(op', arg') # <<>>
                 /\ st'.master_secret = AppliedSnapshot(op', arg')[1].master_secret]_vars

\* init_cipher_suite has derived keys on a State that holds a master secret,
\* which is the one the keys were derived from.
C14_Witness ==
    /\ op = "init_cipher_suite"
    /\ res.ok
    /\ inits # <<>>
    /\ st.master_secret # <<>>
    /\ inits[1].master_secret = st.master_secret

----------------------------------------------------------------------------
(* Properties of unmarshal_binary and of a failing init (Spec). *)

\* C16: unmarshal_binary publishes the restored epochs only once the cipher
\* suite of the snapshot is present and initialized: whenever an
\* unmarshal_binary, failed ones included, has left a restored non-zero
\* epoch in the State, the State holds the snapshot's cipher suite,
\* initialized with keys derived from the State's secrets.
C16_EpochPublishedAfterKeys ==
    (/\ op = "unmarshal_binary"
     /\ AppliedSnapshot(op, arg) # <<>>
     /\ \/ AppliedSnapshot(op, arg)[1].local_epoch > 0
        \/ AppliedSnapshot(op, arg)[1].remote_epoch > 0
     /\ st.local_epoch = AppliedSnapshot(op, arg)[1].local_epoch
     /\ st.remote_epoch = AppliedSnapshot(op, arg)[1].remote_epoch)
        => /\ Initialized(st)
           /\ st.cipher_suite[1].id = AppliedSnapshot(op, arg)[1].cipher_suite_id
           /\ st.cipher_suite[1].keys = <<InitArgs(st)>>

----------------------------------------------------------------------------
(* init_cipher_suite step by step (SpecInitCalls): two callers share one   *)
(* State; a call is suspended between the is_initialized check and the     *)
(* init it makes.  calls.pc is each caller's position; since the cipher    *)
(* suite was bound, calls.invoked counts the invocations of init,          *)
(* calls.overlapped tells whether a call began while another was in        *)
(* flight, and calls.afterInit whether init was invoked on a suite that    *)
(* was already initialized.                                                *)

\* Most invocations of init followed after one binding.
MaxInvocations == 3

Callers == {1, 2}

\* Variant: the answer of is_initialized is ignored.
InitCipherSuiteCheck_Ignored(s) ==
    IF s.cipher_suite # <<>> THEN "invoke" ELSE "unset"

\* init_cipher_suite up to its first suspension: is there a cipher suite,
\* and does is_initialized say so.
InitCipherSuiteCheck(s) ==
    IF s.cipher_suite # <<>>
    THEN IF s.cipher_suite[1].initialized THEN "initialized" ELSE "invoke"
    ELSE "unset"

\* init_cipher_suite past the check: the randoms are marshalled and init is
\* invoked with them and the master secret.
InitCipherSuiteInvoke(s, succeeds) ==
    LET a == InitArgs(s)
        r == CipherSuiteInit(s.cipher_suite[1], a, succeeds)
    IN  [state |-> [s EXCEPT !.cipher_suite = <<r.cs>>], res |-> r.res, inits |-> <<a>>]

\* The snapshots that bind a cipher suite.
BindSnapshots == {s \in LifeSnapshots : s.cipher_suite_id \in RegisteredCipherSuiteIds}

\* deserialize binds a new cipher suite while no call is in flight.
BindCipherSuite ==
    /\ \A c \in Callers : calls.pc[c] = "idle"
    /\ \E ser \in BindSnapshots :
        LET r == deserialize(st, ser)
        IN  /\ st' = r.state
            /\ op' = "deserialize"
            /\ arg' = Args(<<ser>>, NoData, "", <<>>, 0)
            /\ res' = r.res
            /\ inits' = <<>>
            /\ hadKeys' = Initialized(st)
            /\ calls' = NoCalls
            /\ UNCHANGED <<peer, peerRes>>

\* Caller c begins init_cipher_suite: the call returns at once, or is
\* suspended ahead of init.
BeginInitCipherSuite(c) ==
    /\ calls.pc[c] = "idle"
    /\ LET k == InitCipherSuiteCheck(st)
       IN  /\ calls' = [calls EXCEPT
                           !.pc[c] = IF k = "invoke" THEN "init" ELSE "idle",
                           !.overlapped = @ \/ (\E d \in Callers \ {c} : calls.pc[d] # "idle")]
           /\ IF k = "invoke"
              THEN UNCHANGED <<op, arg, res, inits, hadKeys>>
              ELSE /\ op' = "init_cipher_suite"
                   /\ arg' = NoArgs
                   /\ res' = IF k = "unset" THEN Err(ERR_CIPHER_SUITE_UNSET) ELSE Ok(<<>>)
                   /\ inits' = <<>>
                   /\ hadKeys' = Initialized(st)
    /\ UNCHANGED <<st, peer, peerRes>>

\* Caller c resumes: init is invoked and its result returned.
InvokeInit(c) ==
    /\ calls.pc[c] = "init"
    /\ calls.invoked < MaxInvocations
    /\ \E succeeds \in BOOLEAN :
        LET r == InitCipherSuiteInvoke(st, succeeds)
        IN  /\ st' = r.state
            /\ op' = "init_cipher_suite"
            /\ arg' = NoArgs
            /\ res' = r.res
            /\ inits' = r.inits
            /\ hadKeys' = Initialized(st)
            /\ calls' = [calls EXCEPT !.pc[c] = "idle",
                                      !.invoked = @ + 1,
                                      !.afterInit = @ \/ Initialized(st)]
            /\ UNCHANGED <<peer, peerRes>>

NextInitCalls ==
    \/ BindCipherSuite
    \/ \E c \in Callers : BeginInitCipherSuite(c)
    \/ \E c \in Callers : InvokeInit(c)

SpecInitCalls == Init /\ [][NextInitCalls]_vars

----------------------------------------------------------------------------
(* Further properties of a failing init and of malformed blobs (Spec). *)

\* C18: a call on a present, uninitialized cipher suite invokes init with
\* the State's current master secret and randoms.  When that init fails,
\* init_cipher_suite returns its error and leaves every field as it was, the
\* cipher suite present and uninitialized; unmarshal_binary returns the
\* error with the snapshot applied and the snapshot's cipher suite present
\* and uninitialized.  When it succeeds the suite is initialized.
C18_FailedInitKeepsSuite ==
    [][/\ (op' = "init_cipher_suite" /\ st.cipher_suite # <<>> /\ ~Initialized(st))
              => /\ inits' = <<InitArgs(st)>>
                 /\ res'.ok \/ res' = Err(ERR_CIPHER_SUITE_INIT)
                 /\ res'.ok => (Initialized(st') /\ st'.cipher_suite[1].keys = inits')
       /\ (op' = "init_cipher_suite" /\ res' = Err(ERR_CIPHER_SUITE_INIT))
              => /\ st' = st
                 /\ st'.cipher_suite # <<>>
                 /\ ~Initialized(st')
       /\ (op' = "unmarshal_binary" /\ res' = Err(ERR_CIPHER_SUITE_INIT))
              => /\ AppliedSnapshot(op', arg') # <<>>
                 /\ LET ser == AppliedSnapshot(op', arg')[1]
                    IN  /\ st'.local_epoch = ser.local_epoch
                        /\ st'.remote_epoch = ser.remote_epoch
                        /\ RandomMarshal(st'.local_random) = ser.local_random
                        /\ RandomMarshal(st'.remote_random) = ser.remote_random
                        /\ st'.is_client = ser.is_client
                        /\ st'.master_secret = ser.master_secret
                        /\ st'.local_sequence_number[ser.local_epoch + 1] =
                               ser.sequence_number
                        /\ st'.srtp_protection_profile =
                               SrtpFromU16(ser.srtp_protection_profile)
                        /\ st'.peer_certificates = ser.peer_certificates
                        /\ st'.cipher_suite = <<NewCipherSuite(ser.cipher_suite_id)>>
                 /\ inits' = <<InitArgs(st')>>]_vars

\* init_cipher_suite invoked init, which failed: the error is returned and
\* the cipher suite is present and uninitialized.
C18_Witness ==
    /\ op = "init_cipher_suite"
    /\ res = Err(ERR_CIPHER_SUITE_INIT)
    /\ inits # <<>>
    /\ st.cipher_suite # <<>>
    /\ ~Initialized(st)
    /\ st.master_secret # <<>>

\* C20: unmarshal_binary of bytes that do not decode returns the decode
\* error with every field of the State, the cipher suite and its keys
\* included, as it was, and without invoking init.
C20_MalformedBlobTouchesNothing ==
    [][(op' = "unmarshal_binary" /\ arg'.data \in MalformedBlobs)
           => /\ res' = Err(ERR_DECODE)
              /\ st' = st
              /\ inits' = <<>>]_vars

\* A cut blob was given to a State past epoch 0 that holds derived keys, and
\* the State still holds them.
C20_Witness ==
    /\ op = "unmarshal_binary"
    /\ arg.data \in MalformedBlobs
    /\ arg.data # <<>>
    /\ res = Err(ERR_DECODE)
    /\ hadKeys
    /\ Initialized(st)
    /\ st.local_epoch > 0

----------------------------------------------------------------------------
(* Further properties of the duplicate (SpecLife). *)

\* The fields of s that no snapshot carries hold their defaults.
NonSnapshotFieldsDefault(s) ==
    /\ s.pre_master_secret = DefaultState.pre_master_secret
    /\ s.extended_master_secret = DefaultState.extended_master_secret
    /\ s.named_curve = DefaultState.named_curve
    /\ s.local_keypair = DefaultState.local_keypair
    /\ s.cookie = DefaultState.cookie
    /\ s.handshake_send_sequence = DefaultState.handshake_send_sequence
    /\ s.handshake_recv_sequence = DefaultState.handshake_recv_sequence
    /\ s.server_name = DefaultState.server_name
    /\ s.remote_requested_certificate = DefaultState.remote_requested_certificate
    /\ s.local_certificates_verify = DefaultState.local_certificates_verify
    /\ s.local_verify_data = DefaultState.local_verify_data
    /\ s.local_key_signature = DefaultState.local_key_signature
    /\ s.peer_certificates_verified = DefaultState.peer_certificates_verified
    /\ s.replay_detector = DefaultState.replay_detector

\* C19: a clone whose two steps succeed invokes no init: the duplicate holds
\* a fresh cipher suite of the source's id, present and uninitialized, also
\* when the source's was initialized; its sequence numbers of the epochs
\* other than the local epoch are zero, and every field no snapshot carries
\* has its default, whatever the source held.
C19_CloneIsFresh ==
    [][(/\ op' = "clone"
        /\ st.cipher_suite # <<>>
        /\ st.cipher_suite[1].id \in RegisteredCipherSuiteIds)
           => /\ inits' = <<>>
              /\ st'.cipher_suite = <<NewCipherSuite(st.cipher_suite[1].id)>>
              /\ Len(st'.local_sequence_number) = st.local_epoch + 1
              /\ \A i \in 1..Len(st'.local_sequence_number) :
                     i # st.local_epoch + 1 => st'.local_sequence_number[i] = 0
              /\ NonSnapshotFieldsDefault(st')]_vars

\* The duplicate of a State past epoch 0 that held derived keys: its cipher
\* suite is present and uninitialized.
C19_Witness ==
    /\ op = "clone"
    /\ hadKeys
    /\ st.cipher_suite # <<>>
    /\ ~Initialized(st)
    /\ st.local_epoch > 0
    /\ NonSnapshotFieldsDefault(st)

====
